---- MODULE Spec2Model ----
(***************************************************************************)
(* Jobaction backend (src/app.py): a Flask router whose handlers validate  *)
(* the request, verify the bearer token with the Identity Provider and     *)
(* forward one or two queries to the Data Store.                           *)
(*                                                                         *)
(* A request is a record in `reqs`, numbered in arrival order.  The local  *)
(* part of a handler (body validation, header check) runs in the step in   *)
(* which the request arrives; every call to an external collaborator       *)
(* (supabase.auth.*, supabase.table(..)...execute()) is one further step,  *)
(* so that the calls of concurrent requests interleave.                    *)
(***************************************************************************)
EXTENDS Integers, Sequences, FiniteSets, TLC

VARIABLES
    jobs,           \* rows of table "jobs"
    applications,   \* rows of table "applications"
    saved_jobs,     \* rows of table "saved_jobs"
    next_id,        \* the Data Store's serial id, per table
    reqs            \* the requests received so far, in arrival order

vars == <<jobs, applications, saved_jobs, next_id, reqs>>
tables == <<jobs, applications, saved_jobs>>

(***************************************************************************)
(* Bounds of the model.                                                    *)
(***************************************************************************)
\* requests received in a behaviour of Spec (valid requests, interleaved)
MaxRequests == 2
\* requests received in a behaviour of InputSpec (any header, any body)
MaxInputs == 1
\* requests received in a behaviour of SeqSpec (served one after the other)
MaxCalls == 3

(***************************************************************************)
(* JSON values of a request body, and Python's truthiness of them.         *)
(***************************************************************************)
JStr(s) == [str |-> s]
JNum(n) == [num |-> n]
JNull == [null |-> TRUE]

\* dict.get(k): the value, or None when the key is absent
Get(data, k) == IF k \in DOMAIN data THEN data[k] ELSE JNull

\* a presence check only: `is not None`
Truthy_notnone(v) == v # JNull

\* bool(v): "", 0 and None are falsy
Truthy(v) ==
    IF "str" \in DOMAIN v THEN v.str # ""
    ELSE IF "num" \in DOMAIN v THEN v.num # 0
    ELSE FALSE

(***************************************************************************)
(* The Authorization header: a string, here the sequence of its words      *)
(* (the scheme with its trailing blank, then the credential); <<>> is an   *)
(* absent or empty header.                                                 *)
(***************************************************************************)
Bearer == "Bearer "

\* the header is present, whatever its scheme
HasBearer_present(token) == token # <<>>

\* not token or not token.startswith("Bearer ")
HasBearer(token) == token # <<>> /\ Head(token) = Bearer

\* token.replace("Bearer ", ""): every occurrence is removed
RECURSIVE Replace(_)
Replace(token) ==
    IF token = <<>> THEN <<>>
    ELSE IF Head(token) = Bearer THEN Replace(Tail(token))
    ELSE <<Head(token)>> \o Replace(Tail(token))

(***************************************************************************)
(* Identity Provider.  get_user returns the identity of a token it issued  *)
(* and raises for any other; NoUser stands for the raised error.           *)
(***************************************************************************)
NoUser == "none"

get_user(jwt) ==
    IF jwt = <<"tA">> THEN "A"
    ELSE IF jwt = <<"tB">> THEN "B"
    ELSE NoUser

(***************************************************************************)
(* Data Store: select / insert / delete with eq filters.                   *)
(***************************************************************************)
\* the user filter forgotten
SelectPair_anyuser(table, job_id, user_id) ==
    {row \in table : row.job_id = job_id}

\* .select("*").eq("job_id", job_id).eq("user_id", user_id)
SelectPair(table, job_id, user_id) ==
    {row \in table : row.job_id = job_id /\ row.user_id = JStr(user_id)}

\* .select(...).eq("user_id", user_id)
SelectUser(table, user_id) ==
    {row \in table : row.user_id = JStr(user_id)}

\* the ownership filter forgotten
DeleteJobRows_anyowner(table, job_id, user_id) ==
    {row \in table : row.id = job_id}

\* .delete().eq("id", job_id).eq("created_by", user_id): the rows deleted
DeleteJobRows(table, job_id, user_id) ==
    {row \in table : row.id = job_id /\ row.created_by = JStr(user_id)}

\* the user filter forgotten
DeleteSavedRows_anyuser(table, job_id, user_id) ==
    {row \in table : row.job_id = JNum(job_id)}

\* .delete().eq("job_id", job_id).eq("user_id", user_id): the rows deleted
DeleteSavedRows(table, job_id, user_id) ==
    {row \in table : row.job_id = JNum(job_id) /\ row.user_id = JStr(user_id)}

\* .insert(row): the store assigns the id
NewRow(data, id) == ("id" :> id) @@ data

\* a store that keeps one row per content (a uniqueness constraint)
Insert_unique(table, row) ==
    IF \E x \in table : \A k \in DOMAIN row \ {"id"} : x[k] = row[k]
    THEN table
    ELSE table \cup {row}

\* .insert(row).execute(): the table with the row added
Insert(table, row) == table \cup {row}

\* jobs(id, title, company, location, salary): the embedded job of a row
JobSubset(job) ==
    [k \in {"id", "title", "company", "location", "salary"} |->
        IF k = "id" THEN JNum(job.id) ELSE Get(job, k)]

Embed(row) ==
    LET match == {job \in jobs : JNum(job.id) = row.job_id} IN
    row @@ ("jobs" :> IF match = {} THEN JNull
                      ELSE JobSubset(CHOOSE job \in match : TRUE))

(***************************************************************************)
(* Requests.  pc is the next collaborator call of the handler ("done" once *)
(* the response is returned); calls logs the collaborator calls issued;    *)
(* res is the data of the last Data Store result; raised says that the     *)
(* response came from the handler's except branch.                         *)
(***************************************************************************)
Request(endpoint, hdr, body, job_id) ==
    [endpoint |-> endpoint, hdr |-> hdr, body |-> body, job_id |-> job_id,
     pc |-> "start", user_id |-> NoUser, status |-> 0, calls |-> <<>>,
     res |-> {}, raised |-> FALSE]

Goto(q, pc) == [q EXCEPT !.pc = pc]
Call(q, c) == [q EXCEPT !.calls = Append(@, c)]
\* return jsonify(...), status
Return(q, status) == [q EXCEPT !.pc = "done", !.status = status]
\* the failure is noted and the call is issued again
Except_retry(q, status) == [q EXCEPT !.raised = TRUE]

\* except Exception as e: return jsonify({"error": str(e)}), status
Except(q, status) ==
    [q EXCEPT !.pc = "done", !.status = status, !.raised = TRUE]

\* the bearer-token check that opens every authenticated handler
RequireBearer(q) ==
    IF ~HasBearer(q.hdr) THEN Return(q, 401) ELSE Goto(q, "get_user")

\* the token verified twice, once for the check and once for the id
Authenticate_twice(q, fault, then) ==
    LET c == Call(Call(q, "get_user"), "get_user")
        u == IF fault THEN NoUser ELSE get_user(Replace(q.hdr))
    IN  IF u = NoUser THEN Except(c, 401)
        ELSE [c EXCEPT !.user_id = u, !.pc = then]

\* user = supabase.auth.get_user(token.replace("Bearer ", ""))
\* user_id = user.user.id
\* fault: the provider cannot be reached; then: the handler's next call
Authenticate(q, fault, then) ==
    LET c == Call(q, "get_user")
        u == IF fault THEN NoUser ELSE get_user(Replace(q.hdr))
    IN  IF u = NoUser THEN Except(c, 401)
        ELSE [c EXCEPT !.user_id = u, !.pc = then]

Set(r, q) == reqs' = [reqs EXCEPT ![r] = q]

(***************************************************************************)
(* The local part of each handler: what it does before its first call to   *)
(* a collaborator.                                                         *)
(***************************************************************************)
\* GET /api/health
health(q) == Return(q, 200)

\* GET /api/debug/users
debug_users_entry(q) == Goto(q, "select")

\* POST /api/auth/signup: if not email or not password
signup_entry(q) ==
    IF ~Truthy(Get(q.body, "email")) \/ ~Truthy(Get(q.body, "password"))
    THEN Return(q, 400)
    ELSE Goto(q, "sign_up")

\* POST /api/auth/login: if not email or not password
login_entry(q) ==
    IF ~Truthy(Get(q.body, "email")) \/ ~Truthy(Get(q.body, "password"))
    THEN Return(q, 400)
    ELSE Goto(q, "sign_in")

\* GET /api/jobs
get_jobs_entry(q) == Goto(q, "select")

required == {"title", "company", "location", "description"}

\* POST /api/jobs: if any(not data.get(k) for k in required), then the header
create_job_entry(q) ==
    IF \E k \in required : ~Truthy(Get(q.body, k)) THEN Return(q, 400)
    ELSE RequireBearer(q)

\* DELETE /api/jobs/<int:job_id>
delete_job_entry(q) == RequireBearer(q)

\* POST /api/applications: if not job_id, then the header
create_application_entry(q) ==
    IF ~Truthy(Get(q.body, "job_id")) THEN Return(q, 400)
    ELSE RequireBearer(q)

\* GET /api/applications
get_user_applications_entry(q) == RequireBearer(q)

\* POST /api/saved-jobs: if not job_id, then the header
save_job_entry(q) ==
    IF ~Truthy(Get(q.body, "job_id")) THEN Return(q, 400)
    ELSE RequireBearer(q)

\* DELETE /api/saved-jobs/<int:job_id>
unsave_job_entry(q) == RequireBearer(q)

\* GET /api/saved-jobs
get_saved_jobs_entry(q) == RequireBearer(q)

\* Flask's routing of a request to its handler
Dispatch(q) ==
    CASE q.endpoint = "health" -> health(q)
      [] q.endpoint = "debug_users" -> debug_users_entry(q)
      [] q.endpoint = "signup" -> signup_entry(q)
      [] q.endpoint = "login" -> login_entry(q)
      [] q.endpoint = "get_jobs" -> get_jobs_entry(q)
      [] q.endpoint = "create_job" -> create_job_entry(q)
      [] q.endpoint = "delete_job" -> delete_job_entry(q)
      [] q.endpoint = "create_application" -> create_application_entry(q)
      [] q.endpoint = "get_user_applications" -> get_user_applications_entry(q)
      [] q.endpoint = "save_job" -> save_job_entry(q)
      [] q.endpoint = "unsave_job" -> unsave_job_entry(q)
      [] q.endpoint = "get_saved_jobs" -> get_saved_jobs_entry(q)

\* A request arrives and its handler runs up to its first collaborator call.
Arrive(q) ==
    /\ reqs' = Append(reqs, Dispatch(q))
    /\ UNCHANGED <<tables, next_id>>

(***************************************************************************)
(* The collaborator calls of each handler, one step per call.  fault: the  *)
(* call raises (the collaborator is unreachable or rejects the call); a    *)
(* call that raises changes no row.                                        *)
(***************************************************************************)
Fault == BOOLEAN

debug_users(r) ==
    LET q == reqs[r] IN
    /\ q.endpoint = "debug_users" /\ q.pc = "select"
    /\ \E fault \in Fault :
        Set(r, IF fault THEN Except(Call(q, "select"), 500)
               ELSE Return(Call(q, "select"), 200))
    /\ UNCHANGED <<tables, next_id>>

\* res.session and res.user as the provider returns them, or the call raises
signup(r) ==
    LET q == reqs[r] IN
    /\ q.endpoint = "signup" /\ q.pc = "sign_up"
    /\ \E out \in {"session", "user", "error"} :
        Set(r, IF out = "error" THEN Except(Call(q, "sign_up"), 400)
               ELSE Return(Call(q, "sign_up"), 201))
    /\ UNCHANGED <<tables, next_id>>

login(r) ==
    LET q == reqs[r] IN
    /\ q.endpoint = "login" /\ q.pc = "sign_in"
    /\ \E fault \in Fault :
        Set(r, IF fault THEN Except(Call(q, "sign_in"), 401)
               ELSE Return(Call(q, "sign_in"), 200))
    /\ UNCHANGED <<tables, next_id>>

get_jobs(r) ==
    LET q == reqs[r] IN
    /\ q.endpoint = "get_jobs" /\ q.pc = "select"
    /\ \E fault \in Fault :
        Set(r, IF fault THEN Except(Call(q, "select"), 500)
               ELSE [Return(Call(q, "select"), 200) EXCEPT !.res = jobs])
    /\ UNCHANGED <<tables, next_id>>

\* data.setdefault("created_by", user_id): a value in the body is kept
JobData_setdefault(data, user_id) ==
    [k \in DOMAIN data \cup {"created_by"} |->
        IF k \in DOMAIN data THEN data[k] ELSE JStr(user_id)]

\* data["created_by"] = user_id
JobData(data, user_id) ==
    [k \in DOMAIN data \cup {"created_by"} |->
        IF k = "created_by" THEN JStr(user_id) ELSE data[k]]

create_job(r) ==
    LET q == reqs[r] IN
    /\ q.endpoint = "create_job"
    /\ \/ /\ q.pc = "get_user"
          /\ \E fault \in Fault : Set(r, Authenticate(q, fault, "insert"))
          /\ UNCHANGED <<tables, next_id>>
       \/ /\ q.pc = "insert"
          /\ Set(r, Except(Call(q, "insert"), 401))
          /\ UNCHANGED <<tables, next_id>>
       \/ /\ q.pc = "insert"
          /\ LET row == NewRow(JobData(q.body, q.user_id), next_id.jobs) IN
              /\ jobs' = Insert(jobs, row)
              /\ next_id' = [next_id EXCEPT !.jobs = @ + 1]
              /\ Set(r, [Return(Call(q, "insert"), 201) EXCEPT !.res = {row}])
          /\ UNCHANGED <<applications, saved_jobs>>

\* the test inverted: if res.data
DeleteJobStatus_inverted(deleted) == IF deleted # {} THEN 404 ELSE 200

\* if not res.data: 404, else 200
DeleteJobStatus(deleted) == IF deleted = {} THEN 404 ELSE 200

delete_job(r) ==
    LET q == reqs[r] IN
    /\ q.endpoint = "delete_job"
    /\ \/ /\ q.pc = "get_user"
          /\ \E fault \in Fault : Set(r, Authenticate(q, fault, "delete"))
          /\ UNCHANGED <<tables, next_id>>
       \/ /\ q.pc = "delete"
          /\ Set(r, Except(Call(q, "delete"), 401))
          /\ UNCHANGED <<tables, next_id>>
       \/ /\ q.pc = "delete"
          /\ LET deleted == DeleteJobRows(jobs, q.job_id, q.user_id) IN
              /\ jobs' = jobs \ deleted
              /\ Set(r, [Return(Call(q, "delete"), DeleteJobStatus(deleted))
                            EXCEPT !.res = deleted])
          /\ UNCHANGED <<applications, saved_jobs, next_id>>

create_application(r) ==
    LET q == reqs[r]
        job_id == Get(q.body, "job_id")
    IN
    /\ q.endpoint = "create_application"
    /\ \/ /\ q.pc = "get_user"
          /\ \E fault \in Fault : Set(r, Authenticate(q, fault, "select"))
          /\ UNCHANGED <<tables, next_id>>
       \/ /\ q.pc \in {"select", "insert"}
          /\ Set(r, Except(Call(q, q.pc), 401))
          /\ UNCHANGED <<tables, next_id>>
       \/ /\ q.pc = "select"
          /\ LET existing == SelectPair(applications, job_id, q.user_id) IN
              Set(r, IF existing # {}
                     THEN [Return(Call(q, "select"), 400) EXCEPT !.res = existing]
                     ELSE Goto(Call(q, "select"), "insert"))
          /\ UNCHANGED <<tables, next_id>>
       \/ /\ q.pc = "insert"
          /\ LET row == NewRow([job_id |-> job_id, user_id |-> JStr(q.user_id),
                                status |-> JStr("pending")],
                               next_id.applications)
             IN
              /\ applications' = Insert(applications, row)
              /\ next_id' = [next_id EXCEPT !.applications = @ + 1]
              /\ Set(r, [Return(Call(q, "insert"), 201) EXCEPT !.res = {row}])
          /\ UNCHANGED <<jobs, saved_jobs>>

get_user_applications(r) ==
    LET q == reqs[r] IN
    /\ q.endpoint = "get_user_applications"
    /\ \/ /\ q.pc = "get_user"
          /\ \E fault \in Fault : Set(r, Authenticate(q, fault, "select"))
       \/ /\ q.pc = "select"
          /\ \E fault \in Fault :
              Set(r, IF fault THEN Except(Call(q, "select"), 401)
                     ELSE [Return(Call(q, "select"), 200) EXCEPT !.res =
                            {Embed(row) : row \in SelectUser(applications, q.user_id)}])
    /\ UNCHANGED <<tables, next_id>>

save_job(r) ==
    LET q == reqs[r]
        job_id == Get(q.body, "job_id")
    IN
    /\ q.endpoint = "save_job"
    /\ \/ /\ q.pc = "get_user"
          /\ \E fault \in Fault : Set(r, Authenticate(q, fault, "select"))
          /\ UNCHANGED <<tables, next_id>>
       \/ /\ q.pc \in {"select", "insert"}
          /\ Set(r, Except(Call(q, q.pc), 401))
          /\ UNCHANGED <<tables, next_id>>
       \/ /\ q.pc = "select"
          /\ LET existing == SelectPair(saved_jobs, job_id, q.user_id) IN
              Set(r, IF existing # {}
                     THEN [Return(Call(q, "select"), 400) EXCEPT !.res = existing]
                     ELSE Goto(Call(q, "select"), "insert"))
          /\ UNCHANGED <<tables, next_id>>
       \/ /\ q.pc = "insert"
          /\ LET row == NewRow([job_id |-> job_id, user_id |-> JStr(q.user_id)],
                               next_id.saved_jobs)
             IN
              /\ saved_jobs' = Insert(saved_jobs, row)
              /\ next_id' = [next_id EXCEPT !.saved_jobs = @ + 1]
              /\ Set(r, [Return(Call(q, "insert"), 201) EXCEPT !.res = {row}])
          /\ UNCHANGED <<jobs, applications>>

unsave_job(r) ==
    LET q == reqs[r] IN
    /\ q.endpoint = "unsave_job"
    /\ \/ /\ q.pc = "get_user"
          /\ \E fault \in Fault : Set(r, Authenticate(q, fault, "delete"))
          /\ UNCHANGED <<tables, next_id>>
       \/ /\ q.pc = "delete"
          /\ Set(r, Except(Call(q, "delete"), 401))
          /\ UNCHANGED <<tables, next_id>>
       \/ /\ q.pc = "delete"
          /\ LET deleted == DeleteSavedRows(saved_jobs, q.job_id, q.user_id) IN
              /\ saved_jobs' = saved_jobs \ deleted
              /\ Set(r, [Return(Call(q, "delete"), 200) EXCEPT !.res = deleted])
          /\ UNCHANGED <<jobs, applications, next_id>>

get_saved_jobs(r) ==
    LET q == reqs[r] IN
    /\ q.endpoint = "get_saved_jobs"
    /\ \/ /\ q.pc = "get_user"
          /\ \E fault \in Fault : Set(r, Authenticate(q, fault, "select"))
       \/ /\ q.pc = "select"
          /\ \E fault \in Fault :
              Set(r, IF fault THEN Except(Call(q, "select"), 401)
                     ELSE [Return(Call(q, "select"), 200) EXCEPT !.res =
                            {Embed(row) : row \in SelectUser(saved_jobs, q.user_id)}])
    /\ UNCHANGED <<tables, next_id>>

(***************************************************************************)
(* The requests a client may send.                                         *)
(***************************************************************************)
\* no header, another scheme, the tokens of A and B, a token never issued
Headers ==
    {<<>>, <<"Basic ", "tA">>, <<Bearer, "tA">>, <<Bearer, "tB">>,
     <<Bearer, "tX">>}

\* request.get_json() or {}
NoBody == <<>>

FullBody ==
    [title |-> JStr("Engineer"), company |-> JStr("Acme"),
     location |-> JStr("Remote"), description |-> JStr("Build things")]

JobBodies ==
    {FullBody,
     FullBody @@ [created_by |-> JStr("B")],
     [company |-> JStr("Acme"), location |-> JStr("Remote"),
      description |-> JStr("Build things")],
     [FullBody EXCEPT !.company = JStr("")],
     [FullBody EXCEPT !.location = JNull],
     [FullBody EXCEPT !.description = JNum(0)]}

JobIdBodies == {[job_id |-> JNum(1)], [job_id |-> JNum(0)], NoBody}

Credentials ==
    {[email |-> JStr("a@x.com"), password |-> JStr("secret123")],
     [email |-> JStr("a@x.com")]}

JobIds == {1, 2}

Requests ==
    {Request(e, <<>>, NoBody, 0) : e \in {"health", "debug_users", "get_jobs"}}
    \cup {Request(e, <<>>, b, 0) : e \in {"signup", "login"}, b \in Credentials}
    \cup {Request("create_job", h, b, 0) : h \in Headers, b \in JobBodies}
    \cup {Request(e, h, NoBody, j) :
            e \in {"delete_job", "unsave_job"}, h \in Headers, j \in JobIds}
    \cup {Request(e, h, b, 0) :
            e \in {"create_application", "save_job"}, h \in Headers,
            b \in JobIdBodies}
    \cup {Request(e, h, NoBody, 0) :
            e \in {"get_user_applications", "get_saved_jobs"}, h \in Headers}

\* the requests that pass their handler's local checks, with an issued token
ValidRequests ==
    {q \in Requests :
        /\ q.endpoint = "health" \/ Dispatch(q).pc # "done"
        /\ q.hdr # <<Bearer, "tX">>}

\* save / unsave requests for job 1
SeqRequests ==
    {q \in Requests :
        /\ q.endpoint \in {"save_job", "unsave_job"}
        /\ q.hdr \in {<<>>, <<Bearer, "tA">>, <<Bearer, "tB">>}
        /\ q.job_id \in {0, 1}
        /\ q.body \in {NoBody, [job_id |-> JNum(1)]}}

\* no request is being served
Idle == \A r \in DOMAIN reqs : reqs[r].pc = "done"

(***************************************************************************)
(* Specifications.                                                         *)
(***************************************************************************)
Init ==
    /\ jobs = {}
    /\ applications = {}
    /\ saved_jobs = {}
    /\ next_id = [jobs |-> 1, applications |-> 1, saved_jobs |-> 1]
    /\ reqs = <<>>

\* one collaborator call of one request being served
Serve ==
    \/ \E r \in DOMAIN reqs : debug_users(r)
    \/ \E r \in DOMAIN reqs : signup(r)
    \/ \E r \in DOMAIN reqs : login(r)
    \/ \E r \in DOMAIN reqs : get_jobs(r)
    \/ \E r \in DOMAIN reqs : create_job(r)
    \/ \E r \in DOMAIN reqs : delete_job(r)
    \/ \E r \in DOMAIN reqs : create_application(r)
    \/ \E r \in DOMAIN reqs : get_user_applications(r)
    \/ \E r \in DOMAIN reqs : save_job(r)
    \/ \E r \in DOMAIN reqs : unsave_job(r)
    \/ \E r \in DOMAIN reqs : get_saved_jobs(r)

\* valid requests to any endpoint, their collaborator calls interleaved
Next ==
    \/ \E q \in ValidRequests : Len(reqs) < MaxRequests /\ Arrive(q)
    \/ Serve

Spec == Init /\ [][Next]_vars

\* any request to any endpoint: every header and every body
NextInput ==
    \/ \E q \in Requests : Len(reqs) < MaxInputs /\ Arrive(q)
    \/ Serve

InputSpec == Init /\ [][NextInput]_vars

\* save / unsave requests served one after the other
NextSeq ==
    \/ \E q \in SeqRequests : Len(reqs) < MaxCalls /\ Idle /\ Arrive(q)
    \/ \E r \in DOMAIN reqs : save_job(r)
    \/ \E r \in DOMAIN reqs : unsave_job(r)

SeqSpec == Init /\ [][NextSeq]_vars

(***************************************************************************)
(* Vocabulary of the properties, stated on the requests and the tables     *)
(* without the handlers' own operators.                                    *)
(***************************************************************************)
AuthEndpoints ==
    {"create_job", "delete_job", "create_application",
     "get_user_applications", "save_job", "unsave_job", "get_saved_jobs"}

\* the Authorization header is absent or does not start with "Bearer "
NoBearer(q) == Len(q.hdr) = 0 \/ q.hdr[1] # "Bearer "

\* field k is absent from the body, or is "", null or 0
Missing(q, k) ==
    k \notin DOMAIN q.body \/ q.body[k] \in {JStr(""), JNull, JNum(0)}

\* the body lacks a field its endpoint requires
LacksField(q) ==
    \/ /\ q.endpoint = "create_job"
       /\ \E k \in {"title", "company", "location", "description"} : Missing(q, k)
    \/ /\ q.endpoint \in {"create_application", "save_job"}
       /\ Missing(q, "job_id")

\* how many times call c was issued for request q
Issued(q, c) == Cardinality({i \in DOMAIN q.calls : q.calls[i] = c})

\* the Data Store queries of request q, in order
Queries(q) ==
    SelectSeq(q.calls, LAMBDA c : c \in {"select", "insert", "delete"})

Done(q) == q.pc = "done"

C8_SingleQuery ==
    \A r \in DOMAIN reqs :
        /\ Issued(reqs[r], "get_user") <= 1
        /\ Len(Queries(reqs[r])) <= 1

\* C8 as amended: every request issues at most one get_user call and at
\* most one Data Store query, except create application and save job,
\* which issue up to two: the select of the existing rows and, when there
\* are none, the insert.
C8_CallBudget ==
    \A r \in DOMAIN reqs :
        LET q == reqs[r] IN
        /\ Issued(q, "get_user") <= 1
        /\ IF q.endpoint \in {"create_application", "save_job"}
           THEN Queries(q) \in {<<>>, <<"select">>, <<"select", "insert">>}
           ELSE Len(Queries(q)) <= 1

\* a save-job request that verified the token, selected and inserted
C8_Witness ==
    \E r \in DOMAIN reqs :
        /\ reqs[r].endpoint = "save_job"
        /\ reqs[r].status = 201
        /\ reqs[r].calls = <<"get_user", "select", "insert">>

(***************************************************************************)
(* C6.  The owner of a created job.                                        *)
(***************************************************************************)
\* the identity the Identity Provider issued the request's token for
TokenUser(q) ==
    IF q.hdr = <<"Bearer ", "tA">> THEN "A"
    ELSE IF q.hdr = <<"Bearer ", "tB">> THEN "B"
    ELSE "none"

\* C6: every job row inserted by create job has created_by equal to the id
\* of the identity of the request's bearer token, also when the body
\* supplies a created_by of its own; and every row of the jobs table is
\* such a row.
C6_CreatedByIsRequester ==
    /\ \A r \in DOMAIN reqs :
        LET q == reqs[r] IN
        (q.endpoint = "create_job" /\ q.status = 201) =>
            /\ Cardinality(q.res) = 1
            /\ \A row \in q.res : row.created_by = JStr(TokenUser(q))
    /\ \A job \in jobs :
        \E r \in DOMAIN reqs :
            /\ reqs[r].endpoint = "create_job" /\ reqs[r].status = 201
            /\ reqs[r].res = {job}

\* A created a job with a body that names B as created_by
C6_Witness ==
    \E r \in DOMAIN reqs :
        LET q == reqs[r] IN
        /\ q.endpoint = "create_job" /\ q.status = 201
        /\ q.hdr = <<"Bearer ", "tA">>
        /\ "created_by" \in DOMAIN q.body
        /\ q.body.created_by = JStr("B")
        /\ \E job \in jobs : q.res = {job} /\ job.created_by = JStr("A")

(***************************************************************************)
(* C2.  The duplicate check is not atomic.                                 *)
(***************************************************************************)
\* the rows of a table for one (job_id, user_id) pair
PairRows(table, job_id, user) ==
    {row \in table : row.job_id = job_id /\ row.user_id = JStr(user)}

\* C2: a create-application (save-job) request that was answered 201 has
\* inserted a row of its own, whatever rows the table held by then, and
\* every row of the table is the row of such a request: two requests for
\* one (job_id, user_id) pair that both pass the existence check are both
\* answered 201 and leave two rows.  (A saved row may since have been
\* removed by an unsave of the same user.)
C2_AcceptedRowsAreStored ==
    /\ \A r \in DOMAIN reqs :
        LET q == reqs[r] IN
        /\ (q.endpoint = "create_application" /\ q.status = 201) =>
            Cardinality(q.res) = 1 /\ q.res \subseteq applications
        /\ (q.endpoint = "save_job" /\ q.status = 201) =>
            /\ Cardinality(q.res) = 1
            /\ \/ q.res \subseteq saved_jobs
               \/ \E u \in DOMAIN reqs :
                    /\ reqs[u].endpoint = "unsave_job" /\ reqs[u].status = 200
                    /\ q.res \subseteq reqs[u].res
    /\ \A row \in applications :
        \E r \in DOMAIN reqs :
            /\ reqs[r].endpoint = "create_application" /\ reqs[r].status = 201
            /\ reqs[r].res = {row}
    /\ \A row \in saved_jobs :
        \E r \in DOMAIN reqs :
            /\ reqs[r].endpoint = "save_job" /\ reqs[r].status = 201
            /\ reqs[r].res = {row}

\* two requests of endpoint e by A for job 1, both answered 201, and two
\* rows for the pair in the table
Raced(e, table) ==
    \E r1, r2 \in DOMAIN reqs :
        /\ r1 # r2
        /\ \A r \in {r1, r2} :
            /\ reqs[r].endpoint = e
            /\ reqs[r].hdr = <<"Bearer ", "tA">>
            /\ reqs[r].body = [job_id |-> JNum(1)]
            /\ reqs[r].status = 201
        /\ Cardinality(PairRows(table, JNum(1), "A")) = 2

\* two applications of A for job 1
C2_Witness == Raced("create_application", applications)

\* two saved jobs of A for job 1
C2_SavedWitness == Raced("save_job", saved_jobs)

(***************************************************************************)
(* C4.  Deleting a job one does not own.                                   *)
(***************************************************************************)
\* request r executes its Data Store call `call` in this step, and the
\* call returns
Returns(r, call) ==
    /\ r \in DOMAIN reqs
    /\ reqs[r].pc = call
    /\ reqs'[r].pc # call
    /\ ~reqs'[r].raised

\* C4: a delete-job request with a valid token whose delete reaches the
\* Data Store when no job with that id is owned by the requester (the job
\* belongs to another user, or there is no such job) is answered 404 and
\* leaves the jobs table as it was.
C4_ForeignDeleteIs404 ==
    [][\A r \in DOMAIN reqs :
        LET q == reqs[r] IN
        ( /\ q.endpoint = "delete_job"
          /\ Returns(r, "delete")
          /\ ~\E job \in jobs :
                job.id = q.job_id /\ job.created_by = JStr(TokenUser(q)) )
        => /\ reqs'[r].pc = "done"
           /\ reqs'[r].status = 404
           /\ jobs' = jobs]_vars

\* B's delete of job 1 was answered 404 and job 1, created by A, is there
C4_Witness ==
    \E r \in DOMAIN reqs :
        /\ reqs[r].endpoint = "delete_job"
        /\ reqs[r].hdr = <<"Bearer ", "tB">>
        /\ reqs[r].job_id = 1
        /\ reqs[r].status = 404
        /\ ~reqs[r].raised
        /\ \E job \in jobs : job.id = 1 /\ job.created_by = JStr("A")

(***************************************************************************)
(* C9.  Collaborator failures.                                             *)
(***************************************************************************)
\* the status an endpoint answers a collaborator failure with
FailureStatus(endpoint) ==
    IF endpoint \in {"get_jobs", "debug_users"} THEN 500
    ELSE IF endpoint = "signup" THEN 400
    ELSE 401

\* C9: in the step in which a collaborator call of a request fails, the
\* request ends with its endpoint's failure status, the failed call having
\* been issued once; no table and no other request changes; and a request
\* that has ended issues no further call.
C9_FailureIsMapped ==
    [][\A r \in DOMAIN reqs :
        /\ (~reqs[r].raised /\ reqs'[r].raised) =>
            /\ reqs'[r].pc = "done"
            /\ reqs'[r].status = FailureStatus(reqs[r].endpoint)
            /\ reqs'[r].calls = Append(reqs[r].calls, reqs[r].pc)
            /\ Issued(reqs'[r], reqs[r].pc) = 1
            /\ tables' = tables /\ next_id' = next_id
            /\ \A o \in DOMAIN reqs' : o # r => reqs'[o] = reqs[o]
        /\ Done(reqs[r]) => reqs'[r] = reqs[r]]_vars

\* a save of A failed at the Data Store and was answered 401; another save
\* of A for the same job was answered 201
C9_Witness ==
    \E r1, r2 \in DOMAIN reqs :
        /\ \A r \in {r1, r2} :
            /\ reqs[r].endpoint = "save_job"
            /\ reqs[r].hdr = <<"Bearer ", "tA">>
        /\ reqs[r1].raised /\ reqs[r1].status = 401
        /\ reqs[r1].calls = <<"get_user", "select", "insert">>
        /\ reqs[r2].status = 201
        /\ Cardinality(saved_jobs) = 1

(***************************************************************************)
(* C10.  Error responses leave the tables alone.                           *)
(***************************************************************************)
\* C10: a step of a request that changes the jobs, applications or
\* saved_jobs table is the step that ends that request with status 200 or
\* 201; a request that ends with 400, 401, 404 or 500 has changed no row.
C10_ErrorLeavesTables ==
    [][\A r \in DOMAIN reqs' :
        ( /\ r \in DOMAIN reqs => reqs'[r] # reqs[r]
          /\ tables' # tables )
        => /\ r \in DOMAIN reqs
           /\ ~Done(reqs[r]) /\ Done(reqs'[r])
           /\ reqs'[r].status \in {200, 201}]_vars

\* a second application of A for job 1 reached the Data Store, was
\* answered 400, and the first is still the only row
C10_Witness ==
    \E r \in DOMAIN reqs :
        /\ reqs[r].endpoint = "create_application"
        /\ reqs[r].hdr = <<"Bearer ", "tA">>
        /\ reqs[r].status = 400
        /\ reqs[r].calls = <<"get_user", "select">>
        /\ Cardinality(applications) = 1

(***************************************************************************)
(* C3.  Saving a job twice, one call after the other.                      *)
(***************************************************************************)
\* C3: with the calls served one after the other from an empty table, a
\* valid token, no collaborator failure among the save calls of the pair
\* and no unsave of the pair, the first save-job call of a (job_id, user)
\* pair is answered 201, every later one 400, and the table holds exactly
\* one row for the pair.
C3_SaveOnce ==
    \A k \in DOMAIN reqs :
        LET q == reqs[k]
            same(i) ==
                /\ reqs[i].endpoint = "save_job"
                /\ reqs[i].hdr = q.hdr
                /\ reqs[i].body = q.body
            unsaved ==
                \E i \in DOMAIN reqs :
                    /\ reqs[i].endpoint = "unsave_job"
                    /\ reqs[i].hdr = q.hdr
                    /\ JNum(reqs[i].job_id) = q.body.job_id
            failed == \E i \in 1..k : same(i) /\ reqs[i].raised
        IN
        ( /\ q.endpoint = "save_job" /\ Done(q)
          /\ TokenUser(q) # "none" /\ ~LacksField(q)
          /\ ~unsaved /\ ~failed )
        => /\ q.status = IF \E i \in 1..(k - 1) : same(i) THEN 400 ELSE 201
           /\ Cardinality(PairRows(saved_jobs, q.body.job_id, TokenUser(q))) = 1

\* three saves of job 1 by A: 201, 400, 400, and one row
C3_Witness ==
    /\ Len(reqs) >= 3
    /\ \A r \in 1..3 :
        /\ reqs[r].endpoint = "save_job"
        /\ reqs[r].hdr = <<"Bearer ", "tA">>
        /\ reqs[r].body = [job_id |-> JNum(1)]
    /\ reqs[1].status = 201 /\ reqs[2].status = 400 /\ reqs[3].status = 400
    /\ ~reqs[2].raised /\ ~reqs[3].raised
    /\ Cardinality(saved_jobs) = 1

(***************************************************************************)
(* C7.  Unsaving a job that is not saved.                                  *)
(***************************************************************************)
\* C7: an unsave-job call with a valid token whose delete reaches the Data
\* Store when the table holds no row for the (job_id, user) pair is
\* answered 200 and leaves the saved_jobs table as it was; so is every
\* repetition of the call.
C7_UnsaveNotSaved ==
    [][\A r \in DOMAIN reqs :
        LET q == reqs[r] IN
        ( /\ q.endpoint = "unsave_job"
          /\ Returns(r, "delete")
          /\ PairRows(saved_jobs, JNum(q.job_id), TokenUser(q)) = {} )
        => /\ reqs'[r].pc = "done"
           /\ reqs'[r].status = 200
           /\ saved_jobs' = saved_jobs]_vars

\* B saved job 1; then A, who never saved it, unsaved it twice: 200 both
\* times, nothing deleted, B's row still there
C7_Witness ==
    /\ Len(reqs) >= 3
    /\ reqs[1].endpoint = "save_job" /\ reqs[1].status = 201
    /\ reqs[1].hdr = <<"Bearer ", "tB">>
    /\ \A r \in 2..3 :
        /\ reqs[r].endpoint = "unsave_job"
        /\ reqs[r].hdr = <<"Bearer ", "tA">>
        /\ reqs[r].job_id = 1
        /\ reqs[r].status = 200
        /\ reqs[r].res = {}
    /\ saved_jobs = reqs[1].res

====
